---- MODULE Spec2Model ----
(***************************************************************************)
(* Model of chirpstack_api_wrapper.client.ChirpstackClient: the session    *)
(* (login / auth_token), the generic invoker _call_rpc, the refresh-and-   *)
(* replay handler refresh_token and the aggregator _list_with_pagination.  *)
(* The gRPC server is the environment: every dispatch and every Login may  *)
(* succeed or fail with any status code and details text.                  *)
(***************************************************************************)
EXTENDS Integers, Sequences, FiniteSets, TLC

\* ---------------------------------------------------------------- bounds
\* number of distinct jwt values the server hands out before reusing one
MaxJwt == 2
\* largest total number of records held by a listing endpoint
MaxTotal == 3
\* largest page size passed as limit
MaxLimit == 2
\* dispatches and logins of one _call_rpc call that are counted exactly
MaxTrace == 3
\* pages a listing fetches from an endpoint that never lets it finish
MaxPages == 4

\* ---------------------------------------------------------------- values
\* self.auth_token = None
None == 0

Jwts == 1..MaxJwt

\* grpc.StatusCode values a dispatch can fail with
StatusCodes == {"NOT_FOUND", "UNAUTHENTICATED", "UNAVAILABLE", "ABORTED"}

\* e.details(): free text, as a sequence of words
DetailsTexts == { <<"ExpiredSignature">>, <<"invalid", "token">> }

\* grpc.RpcError raised by a stub method
RpcErrors == [code : StatusCodes, details : DetailsTexts]

\* what client.Login(req) can do: return resp.jwt, raise grpc.RpcError with
\* UNAVAILABLE, raise grpc.RpcError with another code, raise another Exception
LoginOutcomes == {"ok", "UNAVAILABLE", "RPC_OTHER", "EXCEPTION"}

\* a dispatch that returned a response
NoErr == [code |-> "OK", details |-> <<>>]

\* no dispatch yet
NoDispatch == [code |-> "NONE", details |-> <<>>]

\* no exception in flight
NoExc == [type |-> "none", code |-> "NONE", details |-> <<>>]

\* what an operation hands to its caller: a response (of the of-th dispatch),
\* the records of a listing, the not-found sentinel of a get_* wrapper, or
\* the exception exc
NoResult == [kind |-> "none", of |-> 0, records |-> <<>>, exc |-> NoExc]

\* the accounts a client is constructed for
Accounts == { [email |-> "admin", password |-> "admin-pw"],
              [email |-> "ops", password |-> "ops-pw"] }

\* no Login request sent yet
NoRequest == [email |-> "", password |-> ""]

\* an optional argument: Nothing for None, Some(x) for the value x
Nothing == <<>>

Some(x) == <<x>>

\* the dict {}
EmptyDict == <<>>

\* the stub classes of chirpstack_api.api the calls below name
ApiStubs == {"DeviceServiceStub", "InternalServiceStub"}

\* the request message classes of chirpstack_api.api the calls below name
ApiMessages == {"GetDeviceRequest", "GlobalSearchRequest", "ListDevicesRequest"}

\* arguments (service_name, rpc_name, request_type, params) callers pass to
\* _call_rpc: an explicit request type, a defaulted one, the Empty request,
\* no request type and no params (the defaulted name "ProfileRequest" is no
\* message class), a service with no stub
CallArgs ==
    { [service_name |-> "DeviceService", rpc_name |-> "Get",
       request_type |-> Some("GetDeviceRequest"), params |-> Some("dev_eui" :> 1)],
      [service_name |-> "InternalService", rpc_name |-> "GlobalSearch",
       request_type |-> Nothing, params |-> Some("search" :> 1)],
      [service_name |-> "InternalService", rpc_name |-> "Profile",
       request_type |-> Some("google.protobuf.Empty"), params |-> Nothing],
      [service_name |-> "InternalService", rpc_name |-> "Profile",
       request_type |-> Nothing, params |-> Nothing],
      [service_name |-> "MeterService", rpc_name |-> "Get",
       request_type |-> Some("GetDeviceRequest"), params |-> Some("dev_eui" :> 1)] }

\* get_device(dev_eui): _call_rpc("DeviceService", "Get", "GetDeviceRequest", {"dev_eui": dev_eui})
GetArgs ==
    [service_name |-> "DeviceService", rpc_name |-> "Get",
     request_type |-> Some("GetDeviceRequest"), params |-> Some("dev_eui" :> 1)]

\* no call in progress
NoArgs == [service_name |-> "", rpc_name |-> "", request_type |-> Nothing,
           params |-> Nothing]

\* no request message built yet
NoMsg == [service |-> "", method |-> "", type |-> "", fields |-> EmptyDict]

\* the one caller thread of Spec
Threads == {1}

\* two caller threads sharing one client
Callers == {1, 2}

Min(a, b) == IF a <= b THEN a ELSE b

Max(a, b) == IF a >= b THEN a ELSE b

\* counters of a call are exact up to MaxTrace and stick at MaxTrace + 1
Sat(n) == Min(n + 1, MaxTrace + 1)

\* the jwt issued after j
NextJwt(j) == (j % MaxJwt) + 1

VARIABLES
    proc,           \* "new" before __init__, "ready" with a client instance, "exited" after sys.exit
    exit_code,      \* argument of sys.exit, 0 while running
    login_on_init,  \* self.login_on_init
    auth_token,     \* self.auth_token, None or a jwt
    init_login,     \* outcome of the Login sent by __init__, "none" when not sent
    srv_jwt,        \* the jwt the server returns at the next successful Login
    total_logins,   \* Login requests sent by this client so far (sticks at MaxTrace + 1)
    rpcs_ok,        \* dispatches answered with a response so far (sticks at 2)
    threads,        \* caller threads sharing the client
    fr,             \* per thread: the activation of the top-level operation it is in
    email,          \* self.email, "" before __init__
    password,       \* self.password, "" before __init__
    login_req       \* the Login request sent last

vars == <<proc, exit_code, login_on_init, auth_token, init_login, srv_jwt,
          total_logins, rpcs_ok, threads, fr, email, password, login_req>>

\* one _call_rpc call made by a caller (not by refresh_token): the metadata
\* token and the error in hand, and its history: the first dispatch's outcome,
\* the dispatches, the logins (those of refresh_token in reauths), the jwt
\* refresh_token stored last, whether it was entered with auth_token None,
\* the dispatches made by the current activation of _call_rpc (act), the
\* token carried by the dispatch that failed last (stale), the request
\* message of the current activation (req) and of the first dispatch (req0),
\* whether a dispatch carried a token the session no longer held (raced)
FreshCall ==
    [metadata |-> None, e |-> NoDispatch, first_e |-> NoDispatch,
     dispatches |-> 0, logins |-> 0, reauths |-> 0, stored |-> None,
     no_token |-> FALSE, act |-> 0, stale |-> None,
     req |-> NoMsg, req0 |-> NoMsg, raced |-> FALSE]

\* activation record of a thread with no operation in progress
IdleFrame ==
    [pc |-> "idle", op |-> "none", call |-> FreshCall, result |-> NoResult,
     records |-> <<>>, offset |-> 0, limit |-> 0, srv_total |-> 0,
     requests |-> <<>>, errors |-> 0, args |-> NoArgs, page |-> 0]

Init ==
    /\ proc = "new"
    /\ exit_code = 0
    /\ login_on_init = TRUE
    /\ auth_token = None
    /\ init_login = "none"
    /\ srv_jwt = 1
    /\ total_logins = 0
    /\ rpcs_ok = 0
    /\ threads = Threads
    /\ fr = [c \in Threads |-> IdleFrame]
    /\ email = ""
    /\ password = ""
    /\ login_req = NoRequest

\* ----------------------------------------------------------------- login
\* login() with a failure that returns None instead of ending the process
login_soft(out, next_proc) ==
    /\ total_logins' = Sat(total_logins)
    /\ login_req' = [email |-> email', password |-> password']
    /\ srv_jwt' = IF out = "ok" THEN NextJwt(srv_jwt) ELSE srv_jwt
    /\ proc' = next_proc
    /\ exit_code' = exit_code

\* req = api.LoginRequest() with the fields crossed
LoginRequest_crossed(e, p) == [email |-> p, password |-> e]

\* req = api.LoginRequest(); req.email = self.email; req.password = self.password
LoginRequest(e, p) == [email |-> e, password |-> p]

\* login(): one Login request; resp.jwt (the old srv_jwt) is returned on
\* success and the process continues as next_proc; every failure ends in
\* sys.exit(1). The fields self.email and self.password are those of the
\* state the step ends in (__init__ assigns them before it calls login).
login(out, next_proc) ==
    /\ total_logins' = Sat(total_logins)
    /\ login_req' = LoginRequest(email', password')
    /\ IF out = "ok"
       THEN /\ srv_jwt' = NextJwt(srv_jwt)
            /\ proc' = next_proc
            /\ exit_code' = exit_code
       ELSE /\ srv_jwt' = srv_jwt
            /\ proc' = "exited"
            /\ exit_code' = 1

\* __init__(email, password, api_endpoint, login_on_init)
init ==
    /\ proc = "new"
    /\ \E loi \in BOOLEAN, out \in LoginOutcomes, acct \in Accounts :
        /\ email' = acct.email
        /\ password' = acct.password
        /\ login_on_init' = loi
        /\ IF loi
           THEN /\ login(out, "ready")
                /\ init_login' = out
                /\ auth_token' = IF out = "ok" THEN srv_jwt ELSE None
           ELSE /\ out = "ok"
                /\ proc' = "ready"
                /\ auth_token' = None
                /\ UNCHANGED <<exit_code, init_login, srv_jwt, total_logins, login_req>>
    /\ UNCHANGED <<rpcs_ok, threads, fr>>

\* ------------------------------------------------------------- _call_rpc
\* a caller invokes _call_rpc(service_name, rpc_name, request_type, params)
call_rpc(c) ==
    /\ proc = "ready"
    /\ UNCHANGED <<email, password>>
    /\ fr[c].pc \in {"idle", "done"}
    /\ \E a \in CallArgs :
        fr' = [fr EXCEPT ![c] = [IdleFrame EXCEPT !.pc = "entry", !.op = "rpc",
                                                   !.args = a]]
    /\ UNCHANGED <<proc, exit_code, login_on_init, auth_token, init_login,
                   srv_jwt, total_logins, login_req, rpcs_ok, threads>>

\* a caller invokes a get_* wrapper (get_app, get_device, get_device_profile,
\* get_gateway, get_device_app_key, get_device_activation), which calls
\* _call_rpc inside try / except grpc.RpcError
get(c) ==
    /\ proc = "ready"
    /\ UNCHANGED <<email, password>>
    /\ fr[c].pc \in {"idle", "done"}
    /\ fr' = [fr EXCEPT ![c] = [IdleFrame EXCEPT !.pc = "entry", !.op = "get",
                                               !.args = GetArgs]]
    /\ UNCHANGED <<proc, exit_code, login_on_init, auth_token, init_login,
                   srv_jwt, total_logins, login_req, rpcs_ok, threads>>

\* the frame after sys.exit(1) inside login(): SystemExit unwinds the operation
Exited(f) ==
    [f EXCEPT !.pc = "done",
              !.result = [NoResult EXCEPT !.kind = "exit", !.exc.type = "SystemExit"]]

\* _get_stub: getattr(api, f"{service_name}Stub") finds a stub class
KnownStub(service_name) == (service_name \o "Stub") \in ApiStubs

\* if request_type is None: request_type = f"{rpc_name}Request"
RequestType(rpc_name, request_type) ==
    IF request_type = Nothing THEN rpc_name \o "Request" ELSE request_type[1]

\* getattr(api, request_type) finds a message class, or the type is Empty
KnownType(t) == t = "google.protobuf.Empty" \/ t \in ApiMessages

\* req_msg: empty_pb2.Empty() or ParseDict(params or {}, req_cls())
BuildRequest(a) ==
    LET t == RequestType(a.rpc_name, a.request_type) IN
    IF t = "google.protobuf.Empty"
    THEN [service |-> a.service_name, method |-> a.rpc_name, type |-> t,
          fields |-> EmptyDict]
    ELSE [service |-> a.service_name, method |-> a.rpc_name, type |-> t,
          fields |-> IF a.params = Nothing THEN EmptyDict ELSE a.params[1]]

\* raise ValueError(...) from err: unknown service or message type
ValueError(f) ==
    [f EXCEPT !.pc = "done",
              !.result = [NoResult EXCEPT
                  !.kind = "raised", !.of = f.call.dispatches,
                  !.exc = [type |-> "ValueError", code |-> "NONE",
                           details |-> IF KnownStub(f.args.service_name)
                                       THEN <<"No message type">>
                                       ELSE <<"Unknown service">>]]]

\* _call_rpc after its token check: the stub, the request message and the
\* metadata with the token the session holds
Prepare(f, token) ==
    IF KnownStub(f.args.service_name)
       /\ KnownType(RequestType(f.args.rpc_name, f.args.request_type))
    THEN [f EXCEPT !.pc = "dispatch", !.call.metadata = token,
                   !.call.req = BuildRequest(f.args)]
    ELSE ValueError(f)

\* _call_rpc up to the dispatch: the lazy login, the stub and request lookup
\* and the metadata built from self.auth_token
Enter(c) ==
    /\ proc = "ready"
    /\ UNCHANGED <<email, password>>
    /\ fr[c].pc = "entry"
    /\ LET f == fr[c] IN
       IF auth_token = None
       THEN \E out \in LoginOutcomes :
            /\ login(out, "ready")
            /\ fr' = [fr EXCEPT ![c] =
                  IF out = "ok"
                  THEN Prepare([f EXCEPT !.call.logins = Sat(f.call.logins),
                                         !.call.no_token = IF f.call.dispatches = 0
                                                           THEN TRUE ELSE @],
                               auth_token)
                  ELSE Exited([f EXCEPT !.call.logins = Sat(f.call.logins)])]
       ELSE /\ fr' = [fr EXCEPT ![c] = Prepare(f, auth_token)]
            /\ UNCHANGED <<proc, exit_code, srv_jwt, total_logins, login_req>>
    /\ UNCHANGED <<login_on_init, auth_token, init_login, rpcs_ok, threads>>

\* -------------------------------------------------- _list_with_pagination
\* the listing endpoint: records 1..total, the page at offset of at most
\* limit records, and the total as total_count
Page(total, offset, limit) ==
    [i \in 1..Max(0, Min(limit, total - offset)) |-> offset + i]

\* a field of a request message: 0 when it is not set
Field(fields, k) == IF k \in DOMAIN fields THEN fields[k] ELSE 0

\* the response to the List request in f.call.req
ListResponse(f) ==
    [result |-> Page(f.srv_total, Field(f.call.req.fields, "offset"),
                     Field(f.call.req.fields, "limit")),
     total_count |-> f.srv_total]

\* the loop test with == for >=
ListDone_exact(records, total_count) == Len(records) = total_count

\* the loop test with > for >=
ListDone_strict(records, total_count) == Len(records) > total_count

\* if len(records) >= resp.total_count: break
ListDone(records, total_count) == Len(records) >= total_count

\* the offset advanced by one record instead of one page
NextOffset_one(offset, limit) == offset + 1

\* offset += limit
NextOffset(offset, limit) == offset + limit

\* offsets of the page requests recorded per listing
ReqCap == MaxTotal + 1

\* the caller's request_dict of a listing
request_dict == ("application_id" :> 1)

\* the page request built from limit and offset alone
ListArgs_nofilter(offset, limit) ==
    [service_name |-> "DeviceService", rpc_name |-> "List",
     request_type |-> Some("ListDevicesRequest"),
     params |-> Some(("limit" :> limit) @@ ("offset" :> offset))]

\* request_dict.update(limit=limit, offset=offset) and the arguments of
\* self._call_rpc(service_name, "List", request_type=request_type, params=request_dict)
ListArgs(offset, limit) ==
    [service_name |-> "DeviceService", rpc_name |-> "List",
     request_type |-> Some("ListDevicesRequest"),
     params |-> Some(("limit" :> limit) @@ ("offset" :> offset) @@ request_dict)]

\* a caller invokes _list_with_pagination(service_name, request_dict, ..., limit)
\* against an endpoint holding srv_total records: records = [], offset = 0
list_with_pagination(c) ==
    /\ proc = "ready"
    /\ UNCHANGED <<email, password>>
    /\ fr[c].pc \in {"idle", "done"}
    /\ \E total \in 0..MaxTotal, lim \in 1..MaxLimit :
        fr' = [fr EXCEPT ![c] = [IdleFrame EXCEPT !.pc = "entry", !.op = "list",
                                                   !.limit = lim, !.srv_total = total,
                                                   !.args = ListArgs(0, lim)]]
    /\ UNCHANGED <<proc, exit_code, login_on_init, auth_token, init_login,
                   srv_jwt, total_logins, login_req, rpcs_ok, threads>>

\* the loop body keeping the last page only
ListStep_replace(f, resp) ==
    LET recs == resp.result IN
    IF ListDone(recs, resp.total_count)
    THEN [f EXCEPT !.records = recs, !.pc = "done",
                   !.result = [NoResult EXCEPT !.kind = "records", !.records = recs]]
    ELSE [f EXCEPT !.records = recs, !.pc = "entry", !.call = FreshCall,
                   !.page = @ + 1,
                   !.offset = NextOffset(f.offset, f.limit),
                   !.args = ListArgs(NextOffset(f.offset, f.limit), f.limit)]

\* the loop body giving up after the second page
ListStep_capped(f, resp) ==
    LET recs == f.records \o resp.result IN
    IF ListDone(recs, resp.total_count) \/ f.page >= 1
    THEN [f EXCEPT !.records = recs, !.pc = "done",
                   !.result = [NoResult EXCEPT !.kind = "records", !.records = recs]]
    ELSE [f EXCEPT !.records = recs, !.pc = "entry", !.call = FreshCall,
                   !.page = @ + 1,
                   !.offset = NextOffset(f.offset, f.limit),
                   !.args = ListArgs(NextOffset(f.offset, f.limit), f.limit)]

\* the loop body after resp = self._call_rpc(...): extend, test, advance;
\* the next iteration is a new _call_rpc call
ListStep(f, resp) ==
    LET recs == f.records \o resp.result IN
    IF ListDone(recs, resp.total_count)
    THEN [f EXCEPT !.records = recs, !.pc = "done",
                   !.result = [NoResult EXCEPT !.kind = "records", !.records = recs]]
    ELSE [f EXCEPT !.records = recs, !.pc = "entry", !.call = FreshCall,
                   !.page = @ + 1,
                   !.offset = NextOffset(f.offset, f.limit),
                   !.args = ListArgs(NextOffset(f.offset, f.limit), f.limit)]

\* _call_rpc returns the response of rpc_fn(req_msg, metadata=metadata),
\* through every refresh_token activation above it, to its caller
Returned(f) ==
    IF f.op \in {"rpc", "get"}
    THEN [f EXCEPT !.pc = "done",
                   !.result = [NoResult EXCEPT !.kind = "response",
                                               !.of = f.call.dispatches]]
    ELSE ListStep(f, ListResponse(f))

\* the except clause retrying the stub method itself
OnRpcError_retry(f) == [f EXCEPT !.pc = "dispatch"]

\* the except clause handing on params with the offset of the next page
OnRpcError_advanced(f) ==
    [f EXCEPT !.pc = "refresh",
              !.args.request_type = Some(RequestType(f.args.rpc_name, @)),
              !.args.params = IF @ = Nothing THEN @
                              ELSE Some(("offset" :> Field(@[1], "offset") + f.limit)
                                        @@ @[1])]

\* except grpc.RpcError as e: return self.refresh_token(e, self._call_rpc,
\* service_name, rpc_name, request_type, params), request_type being the
\* resolved name
OnRpcError(f) ==
    [f EXCEPT !.pc = "refresh",
              !.args.request_type = Some(RequestType(f.args.rpc_name, @))]

\* the frame once rpc_fn(req_msg, metadata=metadata) has been sent and the
\* server's answer out (a response or a grpc.RpcError) is in
Sent(f, out) ==
    [f EXCEPT !.call.dispatches = Sat(f.call.dispatches),
              !.call.act = Sat(f.call.act),
              !.call.stale = IF out = NoErr THEN @ ELSE f.call.metadata,
              !.call.e = out,
              !.call.first_e = IF f.call.dispatches = 0 THEN out ELSE @,
              !.call.req0 = IF f.call.dispatches = 0 THEN f.call.req ELSE @,
              !.call.raced = @ \/ f.call.metadata # auth_token,
              !.requests = IF f.op = "list" /\ Len(@) < ReqCap
                           THEN Append(@, Field(f.call.req.fields, "offset")) ELSE @,
              !.errors = IF out = NoErr THEN @ ELSE Min(@ + 1, 1)]

\* rpc_fn(req_msg, metadata=metadata): the server answers or raises grpc.RpcError
Dispatch(c) ==
    /\ proc = "ready"
    /\ UNCHANGED <<email, password>>
    /\ fr[c].pc = "dispatch"
    /\ \E out \in {NoErr} \cup RpcErrors :
        LET f == fr[c]
            f1 == Sent(f, out)
        IN  IF out = NoErr
            THEN /\ fr' = [fr EXCEPT ![c] = Returned(f1)]
                 /\ rpcs_ok' = Min(rpcs_ok + 1, 2)
            ELSE /\ fr' = [fr EXCEPT ![c] = OnRpcError(f1)]
                 /\ rpcs_ok' = rpcs_ok
    /\ UNCHANGED <<proc, exit_code, login_on_init, auth_token, init_login,
                   srv_jwt, total_logins, login_req, threads>>

\* ---------------------------------------------------------- refresh_token
\* "ExpiredSignature" in details
HasMarker(details) == \E i \in DOMAIN details : details[i] = "ExpiredSignature"

\* the expiry test on the status code alone
IsExpired_codeonly(e) == e.code = "UNAUTHENTICATED"

\* status_code == grpc.StatusCode.UNAUTHENTICATED and "ExpiredSignature" in details
IsExpired(e) == e.code = "UNAUTHENTICATED" /\ HasMarker(e.details)

\* refresh_token without its elif: a re-login on expiry only
Relogin_expiredonly(e, loi) == IsExpired(e)

\* the if / elif of refresh_token: log in again and re-run the method
Relogin(e, loi) == IsExpired(e) \/ ~loi

\* the exception swallowed by the listing, which returns what it has
Raised_partial(f) ==
    [f EXCEPT !.pc = "done",
              !.result = [NoResult EXCEPT
                             !.kind = IF f.op = "list" THEN "records" ELSE "raised",
                             !.of = f.call.dispatches, !.records = f.records]]

\* the exception refresh_token raises for the RpcError e:
\* Exception("The JWT token failed to be refreshed"); code and details of e
\* are logged, not carried
RefreshFailed(e) ==
    [type |-> "Exception", code |-> "NONE",
     details |-> <<"The JWT token failed to be refreshed">>]

\* `except grpc.RpcError as e` of the get_* wrappers: the exceptions it catches
Caught(exc) == exc.type = "RpcError"

\* raise Exception("The JWT token failed to be refreshed"): no handler in
\* _call_rpc or _list_with_pagination, the operation ends with the exception;
\* a get_* wrapper returns its not-found sentinel (None, "" or {}) for the
\* exceptions its handler catches
Raised(f) ==
    LET exc == RefreshFailed(f.call.e) IN
    IF f.op = "get" /\ Caught(exc)
    THEN [f EXCEPT !.pc = "done", !.result = [NoResult EXCEPT !.kind = "sentinel"]]
    ELSE [f EXCEPT !.pc = "done",
                   !.result = [NoResult EXCEPT !.kind = "raised",
                                               !.of = f.call.dispatches,
                                               !.exc = exc]]

\* the session token cleared by a Login that failed
StoreToken_cleared(out, jwt, old) == IF out = "ok" THEN jwt ELSE None

\* the jwt of the Login dropped, as in _call_rpc's own token check
StoreToken_dropped(out, jwt, old) == old

\* self.auth_token = self.login() in refresh_token: the jwt of a successful
\* Login replaces the session token
StoreToken(out, jwt, old) == IF out = "ok" THEN jwt ELSE old

\* refresh_token skipping the Login when the session token is no longer the
\* one the failed dispatch carried
refresh_token_recheck(c) ==
    /\ proc = "ready"
    /\ UNCHANGED <<email, password>>
    /\ fr[c].pc = "refresh"
    /\ LET f == fr[c] IN
       IF Relogin(f.call.e, login_on_init) /\ f.call.stale = auth_token
       THEN \E out \in LoginOutcomes :
            /\ login(out, "ready")
            /\ auth_token' = StoreToken(out, srv_jwt, auth_token)
            /\ fr' = [fr EXCEPT ![c] =
                  LET f1 == [f EXCEPT !.call.logins = Sat(f.call.logins),
                                      !.call.reauths = Sat(f.call.reauths)]
                  IN  IF out = "ok"
                      THEN [f1 EXCEPT !.pc = "sleep", !.call.stored = srv_jwt]
                      ELSE Exited(f1)]
       ELSE /\ fr' = [fr EXCEPT ![c] =
                  IF Relogin(f.call.e, login_on_init)
                  THEN [f EXCEPT !.pc = "sleep"] ELSE Raised(f)]
            /\ UNCHANGED <<proc, exit_code, auth_token, srv_jwt, total_logins, login_req>>
    /\ UNCHANGED <<login_on_init, init_login, rpcs_ok, threads>>

\* refresh_token(e, self._call_rpc, ...) up to time.sleep(2)
refresh_token(c) ==
    /\ proc = "ready"
    /\ UNCHANGED <<email, password>>
    /\ fr[c].pc = "refresh"
    /\ LET f == fr[c] IN
       IF Relogin(f.call.e, login_on_init)
       THEN \E out \in LoginOutcomes :
            /\ login(out, "ready")
            /\ auth_token' = StoreToken(out, srv_jwt, auth_token)
            /\ fr' = [fr EXCEPT ![c] =
                  LET f1 == [f EXCEPT !.call.logins = Sat(f.call.logins),
                                      !.call.reauths = Sat(f.call.reauths)]
                  IN  IF out = "ok"
                      THEN [f1 EXCEPT !.pc = "sleep", !.call.stored = srv_jwt]
                      ELSE Exited(f1)]
       ELSE /\ fr' = [fr EXCEPT ![c] = Raised(f)]
            /\ UNCHANGED <<proc, exit_code, auth_token, srv_jwt, total_logins, login_req>>
    /\ UNCHANGED <<login_on_init, init_login, rpcs_ok, threads>>

\* the method re-run without its params
Replay_noparams(c) ==
    /\ proc = "ready"
    /\ UNCHANGED <<email, password>>
    /\ fr[c].pc = "sleep"
    /\ fr' = [fr EXCEPT ![c].pc = "entry", ![c].call.e = NoDispatch,
                         ![c].call.metadata = None, ![c].call.act = 0,
                         ![c].args.params = Nothing]
    /\ UNCHANGED <<proc, exit_code, login_on_init, auth_token, init_login,
                   srv_jwt, total_logins, login_req, rpcs_ok, threads>>

\* return method(*args, **kwargs) after the sleep: _call_rpc is entered again
\* with the arguments refresh_token was given
Replay(c) ==
    /\ proc = "ready"
    /\ UNCHANGED <<email, password>>
    /\ fr[c].pc = "sleep"
    /\ fr' = [fr EXCEPT ![c].pc = "entry", ![c].call.e = NoDispatch,
                         ![c].call.metadata = None, ![c].call.act = 0]
    /\ UNCHANGED <<proc, exit_code, login_on_init, auth_token, init_login,
                   srv_jwt, total_logins, login_req, rpcs_ok, threads>>

\* ------------------------------------------------------------ behaviours
Next ==
    \/ init
    \/ \E c \in threads : call_rpc(c)
    \/ \E c \in threads : get(c)
    \/ \E c \in threads : list_with_pagination(c)
    \/ \E c \in threads : Enter(c)
    \/ \E c \in threads : Dispatch(c)
    \/ \E c \in threads : refresh_token(c)
    \/ \E c \in threads : Replay(c)

Spec == Init /\ [][Next]_vars

\* the steps of a call in progress: every one is a synchronous, blocking step
\* of the caller's thread
Step(c) == Enter(c) \/ Dispatch(c) \/ refresh_token(c) \/ Replay(c)

\* a thread inside a call keeps running: the server answers every request
\* (with a response or an error) and the sleep ends
FairSpec == Spec /\ \A c \in Threads : WF_vars(Step(c))

\* ------------------------------------------ a listing against any endpoint
\* a client constructed for the admin account with login at construction,
\* holding the first jwt
ListInit ==
    /\ proc = "ready"
    /\ exit_code = 0
    /\ login_on_init = TRUE
    /\ auth_token = 1
    /\ init_login = "ok"
    /\ srv_jwt = NextJwt(1)
    /\ total_logins = 1
    /\ rpcs_ok = 0
    /\ threads = Threads
    /\ fr = [c \in Threads |-> IdleFrame]
    /\ email = "admin"
    /\ password = "admin-pw"
    /\ login_req = LoginRequest("admin", "admin-pw")

\* what a List endpoint whose content changes between requests, or which
\* miscounts, may answer to a request: a page of at most limit records from
\* the offset on, and any total_count
ListResponses(offset, limit) ==
    [result : { [i \in 1..n |-> offset + i] : n \in 0..limit },
     total_count : 0..MaxTotal]

\* rpc_fn(req_msg, metadata=metadata) of a page fetch, answered by such an
\* endpoint with a response; fetches beyond MaxPages are not followed
DispatchList(c) ==
    /\ proc = "ready"
    /\ UNCHANGED <<email, password>>
    /\ fr[c].pc = "dispatch"
    /\ fr[c].op = "list"
    /\ fr[c].page < MaxPages
    /\ LET f == fr[c] IN
       \E resp \in ListResponses(Field(f.call.req.fields, "offset"),
                                  Field(f.call.req.fields, "limit")) :
            fr' = [fr EXCEPT ![c] =
                  ListStep([Sent(f, NoErr) EXCEPT !.srv_total = resp.total_count], resp)]
    /\ rpcs_ok' = Min(rpcs_ok + 1, 2)
    /\ UNCHANGED <<proc, exit_code, login_on_init, auth_token, init_login,
                   srv_jwt, total_logins, login_req, threads>>

ListNext ==
    \/ \E c \in threads : list_with_pagination(c)
    \/ \E c \in threads : Enter(c)
    \/ \E c \in threads : DispatchList(c)

ListSpec == ListInit /\ [][ListNext]_vars

\* ------------------------------------------- two callers sharing a client
\* a client constructed for the admin account with login at construction,
\* shared by two threads
RaceInit ==
    /\ proc = "ready"
    /\ exit_code = 0
    /\ login_on_init = TRUE
    /\ auth_token = 1
    /\ init_login = "ok"
    /\ srv_jwt = NextJwt(1)
    /\ total_logins = 1
    /\ rpcs_ok = 0
    /\ threads = Callers
    /\ fr = [c \in Callers |-> IdleFrame]
    /\ email = "admin"
    /\ password = "admin-pw"
    /\ login_req = LoginRequest("admin", "admin-pw")

\* each thread makes one call, get_device's _call_rpc
RaceCall(c) ==
    /\ fr[c].pc = "idle"
    /\ call_rpc(c)
    /\ fr'[c].args = GetArgs

\* the threads run _call_rpc with no lock: their steps interleave freely
RaceNext ==
    \/ \E c \in threads : RaceCall(c)
    \/ \E c \in threads : Enter(c)
    \/ \E c \in threads : Dispatch(c)
    \/ \E c \in threads : refresh_token(c)
    \/ \E c \in threads : Replay(c)

RaceSpec == RaceInit /\ [][RaceNext]_vars

TypeOK ==
    /\ proc \in {"new", "ready", "exited"}
    /\ exit_code \in {0, 1}
    /\ auth_token \in {None} \cup Jwts
    /\ login_req \in {NoRequest} \cup Accounts
    /\ [email |-> email, password |-> password] \in {NoRequest} \cup Accounts
    /\ \A c \in threads : fr[c].pc \in {"idle", "entry", "dispatch", "refresh", "sleep", "done"}

\* ---------------------------------------------------------------- claims
\* a step of thread c in which its dispatch is answered with a response
Answered(c) ==
    /\ fr[c].pc = "dispatch"
    /\ fr'[c].pc \in {"done", "entry"}

CeilDiv(a, b) == (a + b - 1) \div b

\* C1: no _call_rpc call re-authenticates more than once or dispatches the
\* remote method more than twice, whatever the server answers.
C1_AtMostOneRetry ==
    \A c \in threads : fr[c].call.reauths <= 1 /\ fr[c].call.dispatches <= 2

\* C2: every call a caller makes to _call_rpc eventually completes: it
\* returns a response or raises to its caller (or ends the process).
C2_EveryCallCompletes ==
    \A c \in Threads :
        (fr[c].op = "rpc" /\ fr[c].pc = "entry") ~> (fr[c].pc = "done")

\* C3: when the first dispatch of a call fails with NOT_FOUND, refresh_token
\* sends no Login and does not replay: the error is raised to the caller
\* after that one dispatch, for a client with or without login at construction.
C3_NoRetryOnNotFound ==
    [][\A c \in Threads :
        (/\ fr[c].pc = "refresh"
         /\ fr[c].call.dispatches = 1
         /\ fr[c].call.e.code = "NOT_FOUND"
         /\ fr'[c] # fr[c])
        => (/\ fr'[c].pc = "done"
            /\ fr'[c].result.kind = "raised"
            /\ fr'[c].result.of = 1
            /\ total_logins' = total_logins)]_vars

\* C4: when the first dispatch of a call fails with an error that is neither
\* NOT_FOUND nor token-expired, refresh_token sends no Login and does not
\* replay: it raises to the caller after that one dispatch.
C4_OtherErrorsTerminal ==
    [][\A c \in Threads :
        (/\ fr[c].pc = "refresh"
         /\ fr[c].call.dispatches = 1
         /\ fr[c].call.e.code # "NOT_FOUND"
         /\ ~IsExpired(fr[c].call.e)
         /\ fr'[c] # fr[c])
        => (/\ fr'[c].pc = "done"
            /\ fr'[c].result.kind = "raised"
            /\ fr'[c].result.of = 1
            /\ total_logins' = total_logins)]_vars

\* the replay of a call whose first dispatch failed as token-expired is
\* answered with a response in this step
C5_ReplayAnswered(c) ==
    /\ fr[c].op = "rpc"
    /\ fr[c].call.dispatches = 1
    /\ IsExpired(fr[c].call.first_e)
    /\ Answered(c)

\* the caller gets the replay's response, the call sent exactly one Login and
\* the session token is the jwt of that Login
C5_Transparent(c) ==
    /\ fr'[c].pc = "done"
    /\ fr'[c].result.kind = "response"
    /\ fr'[c].result.of = 2
    /\ fr'[c].call.logins = 1
    /\ fr'[c].call.reauths = 1
    /\ auth_token' = fr'[c].call.stored
    /\ auth_token' # None

\* C5 (as claimed): whenever the first dispatch of a call fails as
\* token-expired and the replay succeeds, the caller receives the replay's
\* response, exactly one login was performed during the call and the session
\* token is the token that login returned.
C5_TransparentRefresh_Original ==
    [][\A c \in Threads : C5_ReplayAnswered(c) => C5_Transparent(c)]_vars

\* C5 (amended): the same, for a call that was entered with a session token
\* (auth_token not None); a call entered without one has also sent the Login
\* of _call_rpc's own token check.
C5_TransparentRefresh ==
    [][\A c \in Threads :
        (C5_ReplayAnswered(c) /\ ~fr[c].call.no_token) => C5_Transparent(c)]_vars

\* C5 witness: a call entered with a token, first dispatch token-expired,
\* replay answered, response of the second dispatch returned
C5_Witness ==
    \E c \in threads :
        /\ fr[c].op = "rpc" /\ fr[c].pc = "done"
        /\ fr[c].result.kind = "response" /\ fr[c].result.of = 2
        /\ IsExpired(fr[c].call.first_e)
        /\ ~fr[c].call.no_token
        /\ fr[c].call.logins = 1

\* C6: a client built with login_on_init=False has sent exactly one Login
\* when its first dispatch is answered with a response, and a later call whose
\* first dispatch is answered sends no Login at all.
C6_LazyLogin ==
    [][\A c \in Threads :
        (~login_on_init /\ Answered(c))
        => (/\ rpcs_ok = 0 => total_logins' = 1
            /\ (rpcs_ok >= 1 /\ fr[c].call.dispatches = 0) => fr[c].call.logins = 0)]_vars

\* C7: a listing whose every dispatch was answered, by an endpoint holding
\* srv_total records and honouring limit/offset, has requested the offsets
\* 0, limit, 2*limit, ... exactly max(1, ceil(srv_total/limit)) times and
\* returns the records 1..srv_total once each, in order.
C7_PaginationComplete ==
    \A c \in threads :
        (/\ fr[c].op = "list" /\ fr[c].pc = "done"
         /\ fr[c].errors = 0 /\ fr[c].result.kind # "exit")
        => (/\ fr[c].result.kind = "records"
            /\ fr[c].requests = [i \in 1..Max(1, CeilDiv(fr[c].srv_total, fr[c].limit))
                                   |-> (i - 1) * fr[c].limit]
            /\ fr[c].result.records = [i \in 1..fr[c].srv_total |-> i])

\* C7 witness: a finished listing of several pages whose last page is partial
C7_Witness ==
    \E c \in threads :
        /\ fr[c].op = "list" /\ fr[c].pc = "done" /\ fr[c].errors = 0
        /\ fr[c].result.kind = "records"
        /\ Len(fr[c].requests) >= 2
        /\ fr[c].srv_total % fr[c].limit # 0

\* C8: when the first response of a listing reports total_count 0 with an
\* empty page, the listing ends there: one request was issued and the empty
\* list is returned.
C8_PaginationEmpty ==
    [][\A c \in Threads :
        (/\ fr[c].op = "list"
         /\ fr[c].srv_total = 0
         /\ fr[c].requests = <<>>
         /\ Answered(c))
        => (/\ fr'[c].pc = "done"
            /\ fr'[c].requests = <<0>>
            /\ fr'[c].result = [NoResult EXCEPT !.kind = "records"])]_vars

\* C8 witness: a listing of an empty endpoint that returned
C8_Witness ==
    \E c \in threads :
        /\ fr[c].op = "list" /\ fr[c].pc = "done" /\ fr[c].srv_total = 0
        /\ fr[c].requests = <<0>> /\ fr[c].result.kind = "records"

\* C9: when a page fetch of a listing fails for good (refresh_token raises, or
\* a Login inside the fetch ends the process), the listing ends in that very
\* step with the failure: no page request follows and none of the records
\* accumulated from earlier pages is returned.
C9_PageFailurePropagates ==
    [][\A c \in Threads :
        (/\ fr[c].op = "list"
         /\ fr[c].pc \in {"entry", "refresh"}
         /\ fr'[c] # fr[c]
         /\ fr'[c].pc \notin {"dispatch", "sleep"})
        => (/\ fr'[c].pc = "done"
            /\ fr'[c].result.kind \in {"raised", "exit"}
            /\ fr'[c].result.records = <<>>
            /\ fr'[c].requests = fr[c].requests
            /\ fr'[c].offset = fr[c].offset)]_vars

\* C9 witness: a listing that raised on a later page, with records of earlier
\* pages accumulated
C9_Witness ==
    \E c \in threads :
        /\ fr[c].op = "list" /\ fr[c].pc = "done"
        /\ fr[c].result.kind = "raised" /\ fr[c].result.records = <<>>
        /\ Len(fr[c].records) >= 2 /\ fr[c].offset > 0

\* C10: when the Login of the constructor fails in any way, the process has
\* exited with code 1, there is no client instance and no token.
C10_ConstructionFailFast ==
    init_login \notin {"none", "ok"}
    => (/\ proc = "exited"
        /\ exit_code = 1
        /\ auth_token = None
        /\ \A c \in threads : fr[c] = IdleFrame)

\* C10 witness: the constructor's Login raised a non-gRPC exception
C10_Witness ==
    init_login = "EXCEPTION" /\ proc = "exited"

\* C11: the process is ended only by a failed Login of the constructor: a
\* Login that fails later (in _call_rpc's token check or in refresh_token)
\* never ends the process.
C11_OnlyConstructionExits ==
    proc = "exited" => init_login \notin {"none", "ok"}

\* C17: whenever _call_rpc is about to dispatch, the session holds a token of
\* a successful Login and that token is the bearer credential of the dispatch.
C17_DispatchCarriesToken ==
    \A c \in threads :
        fr[c].pc = "dispatch"
        => (/\ auth_token # None
            /\ fr[c].call.metadata # None
            /\ fr[c].call.metadata = auth_token)

\* C12: the error a caller receives from _call_rpc carries the status code
\* and the details of the server's failure, so a NOT_FOUND failure and an
\* UNAVAILABLE or other failure are told apart by what is raised.
C12_ErrorCarriesKind ==
    \A c \in threads :
        fr[c].result.kind = "raised"
        => (/\ fr[c].result.exc.code = fr[c].call.e.code
            /\ fr[c].result.exc.details = fr[c].call.e.details)

\* C13: for a client that logged in at construction, a get_* wrapper whose
\* RPC the server answers with NOT_FOUND returns its not-found sentinel
\* without raising.
C13_GetReturnsSentinel ==
    \A c \in threads :
        (/\ login_on_init
         /\ fr[c].op = "get" /\ fr[c].pc = "done"
         /\ fr[c].call.dispatches = 1
         /\ fr[c].call.e.code = "NOT_FOUND")
        => fr[c].result.kind = "sentinel"

\* C18: one activation of _call_rpc dispatches the remote method at most
\* once; every further dispatch of a call belongs to an activation started by
\* refresh_token after a re-login, so there is at most one more dispatch than
\* there are re-logins.
C18_InvokerNoRetry ==
    \A c \in threads :
        /\ fr[c].call.act <= 1
        /\ fr[c].call.dispatches <= fr[c].call.reauths + 1

\* C18 witness: a call dispatched twice, the second time by the activation
\* refresh_token started
C18_Witness ==
    \E c \in threads :
        /\ fr[c].call.dispatches = 2 /\ fr[c].call.reauths = 1
        /\ fr[c].call.act = 1 /\ fr[c].pc = "refresh"

\* C19: the login has returned and the session token is replaced before the
\* delay, and the replay is dispatched after it: a replay carries the token
\* of the latest re-login, which is the session token, and never the token of
\* the dispatch that failed.
C19_ReplayCarriesNewToken ==
    \A c \in threads :
        /\ fr[c].pc = "sleep" => auth_token = fr[c].call.stored
        /\ (fr[c].pc = "dispatch" /\ fr[c].call.dispatches >= 1)
           => (/\ fr[c].call.reauths >= 1
               /\ fr[c].call.metadata = fr[c].call.stored
               /\ fr[c].call.metadata = auth_token
               /\ fr[c].call.metadata # None
               /\ fr[c].call.metadata # fr[c].call.stale)

\* C19 witness: the replay after a token-expired first dispatch is about to
\* be sent with a token other than the expired one
C19_Witness ==
    \E c \in threads :
        /\ fr[c].pc = "dispatch" /\ fr[c].call.dispatches = 1
        /\ IsExpired(fr[c].call.first_e)
        /\ fr[c].call.stale # None
        /\ fr[c].call.metadata # fr[c].call.stale

\* the details text holds the expiry marker
C20_Marked(e) == \E i \in DOMAIN e.details : e.details[i] = "ExpiredSignature"

\* C20: for a client that logged in at construction, refresh_token logs in
\* again exactly when the status is UNAUTHENTICATED and the details hold
\* 'ExpiredSignature'; UNAUTHENTICATED without the marker, and any other
\* status with the marker, raise with no login and no replay.
C20_ExpiryClassification ==
    [][\A c \in Threads :
        (login_on_init /\ fr[c].pc = "refresh" /\ fr'[c] # fr[c])
        => IF fr[c].call.e.code = "UNAUTHENTICATED" /\ C20_Marked(fr[c].call.e)
           THEN /\ fr'[c].call.reauths = Sat(fr[c].call.reauths)
                /\ fr'[c].pc = "sleep" \/ fr'[c].result.kind = "exit"
           ELSE /\ fr'[c].pc = "done"
                /\ fr'[c].result.kind = "raised"
                /\ fr'[c].call.reauths = fr[c].call.reauths
                /\ auth_token' = auth_token
                /\ srv_jwt' = srv_jwt]_vars

\* C20 witness: UNAUTHENTICATED without the marker raised to the caller of a
\* client that logged in at construction, with no login during the call
C20_Witness ==
    \E c \in threads :
        /\ login_on_init /\ fr[c].pc = "done" /\ fr[c].result.kind = "raised"
        /\ fr[c].call.e.code = "UNAUTHENTICATED" /\ ~C20_Marked(fr[c].call.e)
        /\ fr[c].call.logins = 0

\* C15: for a client constructed with login_on_init=False, a call entered
\* while the session holds no token whose first dispatch fails is handed to a
\* re-login (never raised); after the login succeeds the token is stored, the
\* delay follows and the call is entered again; when the server answers that
\* replay, the call returns the replay's response after exactly one re-login
\* and two dispatches.
C15_DeferredFirstCall ==
    [][\A c \in Threads :
        (~login_on_init /\ fr[c].call.no_token /\ fr'[c] # fr[c])
        => /\ (fr[c].pc = "refresh" /\ fr[c].call.dispatches = 1)
              => \/ /\ fr'[c].pc = "sleep"
                    /\ fr'[c].call.reauths = 1
                    /\ auth_token' = fr'[c].call.stored
                    /\ auth_token' # None
                 \/ fr'[c].result.kind = "exit"
           /\ (fr[c].pc = "sleep" /\ fr[c].call.dispatches = 1)
              => (fr'[c].pc = "entry" /\ fr'[c].call.dispatches = 1)
           /\ (/\ fr[c].pc = "dispatch" /\ fr[c].call.dispatches = 1
               /\ fr[c].op \in {"rpc", "get"} /\ fr'[c].call.e = NoErr)
              => /\ fr'[c].pc = "done"
                 /\ fr'[c].result.kind = "response"
                 /\ fr'[c].result.of = 2
                 /\ fr'[c].call.reauths = 1
                 /\ fr[c].call.metadata = auth_token]_vars

\* C15 witness: the first call of a client without login at construction has
\* returned the response of its replay
C15_Witness ==
    \E c \in threads :
        /\ ~login_on_init /\ fr[c].call.no_token
        /\ fr[c].pc = "done" /\ fr[c].result.kind = "response"
        /\ fr[c].result.of = 2 /\ fr[c].call.reauths = 1
        /\ fr[c].call.first_e.code = "UNAUTHENTICATED"
        /\ ~IsExpired(fr[c].call.first_e)

\* C16: the step that constructs a client with login_on_init=True and leaves
\* a running client has sent exactly one Login request, which holds the
\* email and password the client was constructed with, and the session token
\* is the jwt that login returned.
C16_ConstructionLogin ==
    [][(proc = "new" /\ proc' = "ready" /\ login_on_init')
       => /\ total_logins = 0 /\ total_logins' = 1
          /\ login_req'.email = email' /\ login_req'.password = password'
          /\ [email |-> email', password |-> password'] \in Accounts
          /\ init_login' = "ok"
          /\ auth_token' = srv_jwt
          /\ auth_token' # None]_vars

\* C16 witness: a client constructed with login at construction, before any
\* call, holding the jwt of its one Login
C16_Witness ==
    /\ proc = "ready" /\ login_on_init /\ total_logins = 1
    /\ login_req = [email |-> email, password |-> password]
    /\ auth_token # None
    /\ \A c \in threads : fr[c].pc = "idle"

\* C14: while a call is replayed, the arguments handed from attempt to
\* attempt keep their service name, method name, parameter map and resolved
\* request type, and the request message built for a replay is equal (same
\* service, method, message type and fields) to the one of the first
\* dispatch; the token in the metadata is not part of it.
C14_IdempotentReplay ==
    [][\A c \in Threads :
        (/\ fr[c].pc \in {"entry", "dispatch", "refresh", "sleep"}
         /\ fr'[c].pc \in {"entry", "dispatch", "refresh", "sleep"}
         /\ fr'[c].call.dispatches >= 1)
        => /\ fr'[c].args.service_name = fr[c].args.service_name
           /\ fr'[c].args.rpc_name = fr[c].args.rpc_name
           /\ fr'[c].args.params = fr[c].args.params
           /\ RequestType(fr'[c].args.rpc_name, fr'[c].args.request_type)
              = RequestType(fr[c].args.rpc_name, fr[c].args.request_type)
           /\ fr'[c].pc = "dispatch" => fr'[c].call.req = fr'[c].call.req0]_vars

\* C14 witness: the replay of a call made with a defaulted request type and a
\* parameter map is about to be dispatched with a new token
C14_Witness ==
    \E c \in threads :
        /\ fr[c].pc = "dispatch" /\ fr[c].call.dispatches = 1
        /\ fr[c].call.req0.type = "GlobalSearchRequest"
        /\ fr[c].call.req = fr[c].call.req0
        /\ fr[c].call.req.fields # EmptyDict
        /\ fr[c].call.metadata # fr[c].call.stale

\* the arguments name a stub class and a request message class
C21_Resolvable(a) ==
    /\ KnownStub(a.service_name)
    /\ KnownType(RequestType(a.rpc_name, a.request_type))

\* C21: a _call_rpc call whose service name or request-type name cannot be
\* resolved ends at once with ValueError: no request of any kind (the call's
\* method or Login) is sent, the process keeps running, refresh_token is not
\* entered and nothing is replayed.
C21_StructuralErrorsImmediate ==
    [][\A c \in Threads :
        (/\ fr[c].pc = "entry" /\ fr[c].op = "rpc"
         /\ ~C21_Resolvable(fr[c].args) /\ fr'[c] # fr[c])
        => /\ fr'[c].pc = "done"
           /\ fr'[c].result.kind = "raised"
           /\ fr'[c].result.exc.type = "ValueError"
           /\ fr'[c].call.dispatches = 0
           /\ fr'[c].call.logins = 0
           /\ fr'[c].call.reauths = 0
           /\ proc' = "ready"]_vars

\* C30: with a known service, the request _call_rpc builds is the Empty
\* request when the request type is 'google.protobuf.Empty' or params is
\* None; otherwise it is a request of the given type, or of type
\* '<rpc_name>Request' when none is given, holding the fields of params.
C30_RequestConstruction ==
    [][\A c \in Threads :
        (/\ fr[c].pc = "entry" /\ fr[c].op = "rpc" /\ auth_token # None
         /\ KnownStub(fr[c].args.service_name) /\ fr'[c] # fr[c])
        => LET a == fr[c].args IN
           IF a.request_type = Some("google.protobuf.Empty") \/ a.params = Nothing
           THEN /\ fr'[c].pc = "dispatch"
                /\ fr'[c].call.req.type = "google.protobuf.Empty"
                /\ fr'[c].call.req.fields = EmptyDict
           ELSE /\ fr'[c].pc = "dispatch"
                /\ fr'[c].call.req.type
                   = (IF a.request_type = Nothing THEN a.rpc_name \o "Request"
                      ELSE a.request_type[1])
                /\ fr'[c].call.req.fields = a.params[1]]_vars

\* C22: for a client constructed with login_on_init=False whose session
\* holds a token, a call entered with that token whose one dispatch fails
\* with an error that is not token-expired is raised to the caller: no Login
\* is sent and nothing is replayed.
C22_LaterCallsNotRetried ==
    [][\A c \in Threads :
        (/\ ~login_on_init /\ auth_token # None
         /\ fr[c].pc = "refresh" /\ ~fr[c].call.no_token
         /\ fr[c].call.dispatches = 1
         /\ ~(fr[c].call.e.code = "UNAUTHENTICATED" /\ C20_Marked(fr[c].call.e))
         /\ fr'[c] # fr[c])
        => /\ fr'[c].pc = "done"
           /\ fr'[c].result.kind = "raised"
           /\ fr'[c].call.reauths = 0
           /\ fr'[c].call.logins = 0
           /\ auth_token' = auth_token]_vars

\* C29: a session token is never replaced by None, and every step that
\* changes the token field stores the jwt a successful Login of that step
\* returned; a dispatch that fails, with token-expired or anything else,
\* leaves the field as it is.
C29_TokenNeverCleared ==
    [][/\ auth_token # None => auth_token' # None
       /\ auth_token' # auth_token
          => /\ auth_token' = srv_jwt
             /\ srv_jwt' = NextJwt(srv_jwt)
             /\ login_req' = [email |-> email', password |-> password']
             /\ proc' = "ready"
       /\ (\E c \in Threads : fr[c].pc = "dispatch" /\ fr'[c].pc # "dispatch")
          => auth_token' = auth_token]_vars

\* C29 witness: a token-expired failure has been answered by a re-login and
\* the session holds the new jwt in place of the expired one
C29_Witness ==
    \E c \in threads :
        /\ fr[c].pc = "sleep" /\ IsExpired(fr[c].call.e)
        /\ fr[c].call.stale # None
        /\ auth_token # None /\ auth_token # fr[c].call.stale
        /\ auth_token = fr[c].call.stored

\* C26: in a listing against an endpoint holding srv_total records, every
\* request of a page fetch, the replay after a re-login included, carries
\* the offset and limit of that page; the failure, the re-login and the
\* replay leave the offset and the accumulated records as they are; and a
\* listing that returns, whatever page fetches were replayed, returns the
\* records 1..srv_total once each, in order.
C26_ExpiryAbsorbedPerPage ==
    [][\A c \in Threads :
        /\ (fr'[c].op = "list" /\ fr'[c].pc = "dispatch")
           => /\ Field(fr'[c].call.req.fields, "offset") = fr'[c].page * fr'[c].limit
              /\ Field(fr'[c].call.req.fields, "limit") = fr'[c].limit
        /\ (fr[c].op = "list" /\ fr[c].pc \in {"refresh", "sleep"}
            /\ fr'[c].pc \in {"sleep", "entry"})
           => /\ fr'[c].offset = fr[c].offset
              /\ fr'[c].page = fr[c].page
              /\ fr'[c].records = fr[c].records
        /\ (fr'[c].op = "list" /\ fr'[c].pc = "done"
            /\ fr'[c].result.kind = "records")
           => fr'[c].result.records = [i \in 1..fr'[c].srv_total |-> i]]_vars

\* C26 witness: a listing by a client that logged in at construction has
\* returned all records after the fetch of a later page failed once with
\* token-expired and was replayed
C26_Witness ==
    \E c \in threads :
        /\ login_on_init
        /\ fr[c].op = "list" /\ fr[c].pc = "done"
        /\ fr[c].result.kind = "records"
        /\ fr[c].page >= 1
        /\ IsExpired(fr[c].call.first_e)
        /\ fr[c].call.dispatches = 2
        /\ fr[c].result.records = [i \in 1..fr[c].srv_total |-> i]
        /\ fr[c].requests = <<0, fr[c].limit, fr[c].limit>>

\* C23: in a listing against any endpoint, no step lowers the number of
\* accumulated records; the listing returns only with at least as many
\* records as the total_count of the response it has just read, and returns
\* exactly what it accumulated; and after a response that leaves the count
\* below its total_count the next page is requested.
C23_PageStateInvariant ==
    [][\A c \in Threads :
        (fr[c].op = "list" /\ fr[c].pc \in {"entry", "dispatch"} /\ fr'[c] # fr[c])
        => /\ Len(fr'[c].records) >= Len(fr[c].records)
           /\ fr'[c].pc = "done"
              => /\ fr'[c].result.kind = "records"
                 /\ fr'[c].result.records = fr'[c].records
                 /\ Len(fr'[c].records) >= fr'[c].srv_total
           /\ (fr[c].pc = "dispatch" /\ Len(fr'[c].records) < fr'[c].srv_total)
              => /\ fr'[c].pc = "entry"
                 /\ fr'[c].page = fr[c].page + 1]_vars

\* C23 witness: a listing returned after three or more pages, one of them
\* empty, with exactly as many records as the last total_count
C23_Witness ==
    \E c \in threads :
        /\ fr[c].op = "list" /\ fr[c].pc = "done" /\ fr[c].result.kind = "records"
        /\ fr[c].page >= 2
        /\ Len(fr[c].records) = fr[c].srv_total
        /\ Len(fr[c].records) < fr[c].page

\* C24: whenever a response reports a total_count greater than the number of
\* records accumulated with it, the listing does not return: it requests
\* another page, at the offset advanced by the page size. Nothing else ends
\* the loop, so an endpoint that always answers so is asked page after page.
C24_NoIterationCap ==
    [][\A c \in Threads :
        (/\ fr[c].op = "list" /\ fr[c].pc = "dispatch" /\ fr'[c] # fr[c]
         /\ fr'[c].srv_total > Len(fr'[c].records))
        => /\ fr'[c].pc = "entry"
           /\ fr'[c].result = NoResult
           /\ fr'[c].page = fr[c].page + 1
           /\ fr'[c].offset = fr[c].offset + fr[c].limit
           /\ Field(fr'[c].args.params[1], "offset") = fr[c].offset + fr[c].limit]_vars

\* C24 witness: after MaxPages empty pages with a positive total_count the
\* listing is about to send yet another request, MaxPages page sizes on
C24_Witness ==
    \E c \in threads :
        /\ fr[c].op = "list" /\ fr[c].pc = "dispatch"
        /\ fr[c].page = MaxPages
        /\ fr[c].records = <<>>
        /\ fr[c].srv_total > 0
        /\ Field(fr[c].call.req.fields, "offset") = MaxPages * fr[c].limit

\* C25: when the response to a later page reports a total_count below the
\* previous response's and not above the number of records accumulated with
\* this page, the listing returns after that page, and returns all it
\* accumulated, the earlier pages followed by this one.
C25_ShrinkingTotal ==
    [][\A c \in Threads :
        (/\ fr[c].op = "list" /\ fr[c].pc = "dispatch" /\ fr'[c] # fr[c]
         /\ fr[c].page >= 1
         /\ fr'[c].srv_total < fr[c].srv_total
         /\ fr'[c].srv_total <= Len(fr'[c].records))
        => /\ fr'[c].pc = "done"
           /\ fr'[c].result.kind = "records"
           /\ fr'[c].result.records = fr'[c].records
           /\ Len(fr'[c].records) >= Len(fr[c].records)
           /\ SubSeq(fr'[c].records, 1, Len(fr[c].records)) = fr[c].records
           /\ fr'[c].page = fr[c].page]_vars

\* C25 witness: a listing returned after a later page with more records than
\* the last total_count, which is below the number of records the earlier
\* pages had brought (so below the totals reported with them)
C25_Witness ==
    \E c \in threads :
        /\ fr[c].op = "list" /\ fr[c].pc = "done" /\ fr[c].result.kind = "records"
        /\ fr[c].page >= 1
        /\ fr[c].srv_total > 0
        /\ fr[c].srv_total < Len(fr[c].records) - fr[c].limit

\* C27: every page request of a listing is a ListDevicesRequest to
\* DeviceService.List holding the caller's filter fields, limit equal to the
\* page size and offset equal to the page's number (from 0) times the page
\* size, however many records the earlier pages brought.
C27_PageRequestFrame ==
    [][\A c \in Threads :
        (fr'[c].op = "list" /\ fr'[c].pc = "dispatch")
        => /\ fr'[c].call.req.service = "DeviceService"
           /\ fr'[c].call.req.method = "List"
           /\ fr'[c].call.req.type = "ListDevicesRequest"
           /\ fr'[c].call.req.fields
              = ("limit" :> fr'[c].limit) @@ ("offset" :> fr'[c].page * fr'[c].limit)
                @@ request_dict
           /\ \A k \in DOMAIN request_dict :
                 fr'[c].call.req.fields[k] = request_dict[k]]_vars

\* C27 witness: the request of the third page, at twice the page size, when
\* the two pages before brought fewer records than one page holds
C27_Witness ==
    \E c \in threads :
        /\ fr[c].op = "list" /\ fr[c].pc = "dispatch"
        /\ fr[c].page = 2 /\ fr[c].limit = 2
        /\ Len(fr[c].records) = 1
        /\ Field(fr[c].call.req.fields, "offset") = 4
        /\ Field(fr[c].call.req.fields, "application_id") = 1

\* C28: nothing serialises the callers of a shared client. A dispatch
\* carries the token its thread read when it built the metadata, whatever
\* the session token has become since; and a thread whose dispatch failed
\* with token-expired sends a Login of its own and stores its jwt, whether or
\* not another thread has already replaced the expired token.
C28_NoMutualExclusion ==
    [][\A c \in Callers :
        (c \in DOMAIN fr)
        => /\ (fr[c].pc = "dispatch" /\ fr'[c].pc = "refresh")
              => /\ fr'[c].call.stale = fr[c].call.metadata
                 /\ fr'[c].call.raced = (fr[c].call.raced
                                         \/ fr[c].call.metadata # auth_token)
           /\ (fr[c].pc = "refresh" /\ IsExpired(fr[c].call.e) /\ fr'[c] # fr[c])
              => /\ fr'[c].call.logins = Sat(fr[c].call.logins)
                 /\ fr'[c].call.reauths = Sat(fr[c].call.reauths)
                 /\ fr'[c].pc = "sleep"
                    => (auth_token' = srv_jwt /\ srv_jwt' = NextJwt(srv_jwt))]_vars

\* C28 witness: both threads dispatched with the first jwt, both were told it
\* had expired and each has logged in for it (three Logins with the one at
\* construction); thread 2 sent its dispatch when thread 1's new token was
\* already stored
C28_Witness ==
    /\ threads = Callers
    /\ \A c \in Callers :
        /\ fr[c].pc = "sleep"
        /\ fr[c].call.dispatches = 1 /\ fr[c].call.reauths = 1
        /\ IsExpired(fr[c].call.first_e)
        /\ fr[c].call.stale = 1
    /\ ~fr[1].call.raced
    /\ fr[2].call.raced
    /\ total_logins = 3
    /\ auth_token = fr[2].call.stored
    /\ fr[1].call.stored # fr[2].call.stored
====
